---- MODULE Spec2Model ----
(***************************************************************************)
(* A model of app.py: the RD -> WGS84 converter rd_to_wgs84, the loop that *)
(* plots the objects of the selected room, and the session state driven by *)
(* marker clicks, the Reset button and the date selector.                  *)
(*                                                                         *)
(* Python floats are modelled as exact decimal reals with the range limit  *)
(* of the binary64 format: a finite result beyond the largest float        *)
(* becomes an infinity in + - * / and raises OverflowError in **.  The     *)
(* rounding of the 53-bit mantissa is not modelled.  The reals are kept    *)
(* exactly, as  m * 10^e / q  with an arbitrary-precision mantissa m,      *)
(* because TLC's own integers are 32 bits wide.                            *)
(***************************************************************************)
EXTENDS Integers, Sequences, FiniteSets

VARIABLES
    arg,        \* rd_to_wgs84: the (x, y) of the last sequential call
    out,        \* rd_to_wgs84: what that call produced
    east,       \* rd_to_wgs84: what the call 100 m to the east produced
    thr,        \* concurrent calls: each thread's locals and position
    objs,       \* object loop: the rows of the selected room's file
    idx,        \* object loop: rows handled so far
    markers,    \* object loop: the object markers added to the map
    errors,     \* object loop: st.error messages shown
    escaped,    \* object loop: TRUE once an exception has left the loop
    ss,         \* st.session_state
    widgets,    \* streamlit's widget store: the map's and the selectbox's values
    view,       \* the event behind the last script run and what it rendered
    profiles    \* the rows of profiles.csv

vars == <<arg, out, east, thr, objs, idx, markers, errors, escaped, ss, widgets,
          view, profiles>>

(***************************************************************************)
(* Arbitrary-precision naturals: little-endian sequences of limbs in       *)
(* 0..Base-1 with no leading (high) zero limb; zero is the empty sequence. *)
(***************************************************************************)
Base == 10 ^ 4

Limb(s, i) == IF i <= Len(s) THEN s[i] ELSE 0

Max(a, b) == IF a > b THEN a ELSE b

Min(a, b) == IF a < b THEN a ELSE b

Abs(n) == IF n < 0 THEN -n ELSE n

\* the largest element of a non-empty set of integers
Top(S) == CHOOSE i \in S : \A j \in S : j <= i

\* without the high zero limbs
MagNorm(s) ==
    LET nz == {i \in 1..Len(s) : s[i] # 0}
    IN  IF nz = {} THEN <<>> ELSE SubSeq(s, 1, Top(nz))

RECURSIVE MagOf(_)
MagOf(n) == IF n = 0 THEN <<>> ELSE <<n % Base>> \o MagOf(n \div Base)

\* limbs lo..hi of a + b + c and the carry out of them; the range is halved
\* so that the recursion is only logarithmically deep
RECURSIVE AddRange(_, _, _, _, _)
AddRange(a, b, lo, hi, c) ==
    IF lo = hi
    THEN LET s == Limb(a, lo) + Limb(b, lo) + c
         IN  [d |-> <<s % Base>>, c |-> s \div Base]
    ELSE LET mid == (lo + hi) \div 2
             L   == AddRange(a, b, lo, mid, c)
             H   == AddRange(a, b, mid + 1, hi, L.c)
         IN  [d |-> L.d \o H.d, c |-> H.c]

MagAdd(a, b) ==
    LET n == Max(Len(a), Len(b))
        r == AddRange(a, b, 1, n, 0)
    IN  IF n = 0 THEN <<>>
        ELSE IF r.c = 0 THEN r.d
        ELSE Append(r.d, r.c)

\* limbs lo..hi of a - b - c and the borrow out of them
RECURSIVE SubRange(_, _, _, _, _)
SubRange(a, b, lo, hi, c) ==
    IF lo = hi
    THEN LET s == Limb(a, lo) - Limb(b, lo) - c
         IN  IF s < 0 THEN [d |-> <<s + Base>>, c |-> 1]
             ELSE [d |-> <<s>>, c |-> 0]
    ELSE LET mid == (lo + hi) \div 2
             L   == SubRange(a, b, lo, mid, c)
             H   == SubRange(a, b, mid + 1, hi, L.c)
         IN  [d |-> L.d \o H.d, c |-> H.c]

\* a - b for a >= b
MagSub(a, b) ==
    IF a = <<>> THEN <<>> ELSE MagNorm(SubRange(a, b, 1, Len(a), 0).d)

\* -1, 0, 1 as a < b, a = b, a > b
MagCmp(a, b) ==
    IF Len(a) < Len(b) THEN -1
    ELSE IF Len(a) > Len(b) THEN 1
    ELSE LET df == {i \in 1..Len(a) : a[i] # b[i]}
         IN  IF df = {} THEN 0
             ELSE IF a[Top(df)] < b[Top(df)] THEN -1
             ELSE 1

MagShift(a, n) == IF a = <<>> THEN <<>> ELSE [i \in 1..n |-> 0] \o a

\* a * d for one limb d: the low halves of the limb products plus their
\* high halves one place up
MagMulLimb(a, d) ==
    IF a = <<>> \/ d = 0 THEN <<>>
    ELSE MagAdd(MagNorm([i \in 1..Len(a) |-> (a[i] * d) % Base]),
                MagShift(MagNorm([i \in 1..Len(a) |-> (a[i] * d) \div Base]), 1))

\* a times the limbs lo..hi of b; the range is halved as in AddRange
RECURSIVE MulRange(_, _, _, _)
MulRange(a, b, lo, hi) ==
    IF lo = hi THEN MagMulLimb(a, b[lo])
    ELSE LET mid == (lo + hi) \div 2
         IN  MagAdd(MulRange(a, b, lo, mid),
                    MagShift(MulRange(a, b, mid + 1, hi), mid + 1 - lo))

MagMul(a, b) ==
    IF a = <<>> \/ b = <<>> THEN <<>> ELSE MulRange(a, b, 1, Len(b))

\* a * 10^n
MagScale10(a, n) == MagShift(MagMulLimb(a, 10 ^ (n % 4)), n \div 4)

(***************************************************************************)
(* Python floats.  A finite float is the real  (neg ? -1 : 1) * m * 10^e / q *)
(* with m a magnitude as above, e an integer and q a positive integer      *)
(* (q is 1 until a division by an integer); zero is m = <<>>.              *)
(***************************************************************************)
Zero == [k |-> "fin", neg |-> FALSE, m |-> <<>>, e |-> 0, q |-> 1]

\* low zero limbs move into the exponent
Fin(neg, m, e, q) ==
    IF m = <<>> THEN Zero
    ELSE LET z == Top({i \in 0..(Len(m) - 1) : \A j \in 1..i : m[j] = 0})
         IN  [k |-> "fin", neg |-> neg, m |-> SubSeq(m, z + 1, Len(m)),
              e |-> e + 4 * z, q |-> q]

Inf(neg) == [k |-> "inf", neg |-> neg, m |-> <<>>, e |-> 0, q |-> 1]

NaN == [k |-> "nan", neg |-> FALSE, m |-> <<>>, e |-> 0, q |-> 1]

\* what an expression yields when float.__pow__ raises OverflowError
OverflowError == [k |-> "OverflowError", neg |-> FALSE, m |-> <<>>, e |-> 0, q |-> 1]

\* the float literal n * 10^e, n an integer literal
FDec(n, e) == Fin(n < 0, MagOf(Abs(n)), e, 1)

\* sys.float_info.max = 1.7976931348623157e+308
MaxFloatMag == <<3157, 4862, 9313, 7976, 1>>

MaxFloatExp == 292

\* -1, 0, 1 as |a| < |b|, |a| = |b|, |a| > |b|, for finite a and b
CmpAbs(a, b) ==
    LET lo == Min(a.e, b.e)
    IN  MagCmp(MagMul(MagScale10(a.m, a.e - lo), MagOf(b.q)),
               MagMul(MagScale10(b.m, b.e - lo), MagOf(a.q)))

\* a finite real beyond the largest float
Overflows(v) ==
    /\ 4 * Len(v.m) + v.e > MaxFloatExp + 16
    /\ CmpAbs(v, [k |-> "fin", neg |-> FALSE, m |-> MaxFloatMag,
                  e |-> MaxFloatExp, q |-> 1]) > 0

\* the result of + - * / on finite operands: an infinity beyond the range
Rounded(v) == IF Overflows(v) THEN Inf(v.neg) ELSE v

FNeg(a) == IF a.k = "nan" \/ a = Zero THEN a
           ELSE [a EXCEPT !.neg = ~a.neg]

FMul(a, b) ==
    IF a.k = "nan" \/ b.k = "nan" THEN NaN
    ELSE IF a.k = "inf" \/ b.k = "inf"
    THEN (IF a = Zero \/ b = Zero THEN NaN ELSE Inf(a.neg # b.neg))
    ELSE Rounded(Fin(a.neg # b.neg, MagMul(a.m, b.m), a.e + b.e, a.q * b.q))

\* the numerator of a over the denominator and exponent it shares with b
Aligned(a, b) ==
    MagMul(MagScale10(a.m, a.e - Min(a.e, b.e)),
           IF a.q = b.q THEN <<1>> ELSE MagOf(b.q))

\* (sa ? -an : an) + (sb ? -bn : bn), over 10^-e and q
AddAligned(sa, an, sb, bn, e, q) ==
    Rounded(Fin(IF sa = sb \/ MagCmp(an, bn) >= 0 THEN sa ELSE sb,
                IF sa = sb THEN MagAdd(an, bn)
                ELSE IF MagCmp(an, bn) >= 0 THEN MagSub(an, bn)
                ELSE MagSub(bn, an),
                e, q))

FAdd(a, b) ==
    IF a.k = "nan" \/ b.k = "nan" THEN NaN
    ELSE IF a.k = "inf"
    THEN (IF b.k = "inf" /\ a.neg # b.neg THEN NaN ELSE a)
    ELSE IF b.k = "inf" THEN b
    ELSE AddAligned(a.neg, Aligned(a, b), b.neg, Aligned(b, a), Min(a.e, b.e),
                    IF a.q = b.q THEN a.q ELSE a.q * b.q)

FSub(a, b) == FAdd(a, FNeg(b))

\* a / n for an integer n > 0
FDivInt(a, n) ==
    IF a.k = "fin" THEN Fin(a.neg, a.m, a.e, a.q * n) ELSE a

RECURSIVE MagPow(_, _)
MagPow(a, n) == IF n = 0 THEN <<1>> ELSE MagMul(a, MagPow(a, n - 1))

\* the power of a finite base: OverflowError beyond the float range
PowResult(v) == IF Overflows(v) THEN OverflowError ELSE v

\* a slip: a power computed as exp(n * log(b)), which fails on a zero base
FPow_ZeroBaseRaises(b, n) ==
    IF b = Zero THEN OverflowError
    ELSE IF n = 0 THEN FDec(1, 0)
    ELSE IF b.k = "nan" THEN NaN
    ELSE IF b.k = "inf" THEN Inf(b.neg /\ n % 2 = 1)
    ELSE PowResult(Fin(b.neg /\ n % 2 = 1, MagPow(b.m, n), b.e * n, b.q ^ n))

\* b ** n for an integer n >= 0: x ** 0 is 1.0 for every x (0.0, nan and
\* the infinities included); a finite base whose power is beyond the float
\* range raises OverflowError
FPow(b, n) ==
    IF n = 0 THEN FDec(1, 0)
    ELSE IF b.k = "nan" THEN NaN
    ELSE IF b.k = "inf" THEN Inf(b.neg /\ n % 2 = 1)
    ELSE PowResult(Fin(b.neg /\ n % 2 = 1, MagPow(b.m, n), b.e * n, b.q ^ n))

\* a < b on floats (FALSE when either is nan)
FLess(a, b) ==
    IF a.k = "nan" \/ b.k = "nan" THEN FALSE
    ELSE IF a.k = "inf" THEN a.neg /\ ~(b.k = "inf" /\ b.neg)
    ELSE IF b.k = "inf" THEN ~b.neg
    ELSE IF a.neg # b.neg THEN a.neg
    ELSE IF a.neg THEN CmpAbs(a, b) > 0 ELSE CmpAbs(a, b) < 0

FLeq(a, b) == a.k # "nan" /\ b.k # "nan" /\ ~FLess(b, a)

\* the same float: the same real, the same infinity, or both nan
FSame(a, b) ==
    /\ a.k = b.k
    /\ a.k = "fin" => a.neg = b.neg /\ CmpAbs(a, b) = 0
    /\ a.k = "inf" => a.neg = b.neg

(***************************************************************************)
(* rd_to_wgs84                                                             *)
(***************************************************************************)
x0 == FDec(155000, 0)

y0 == FDec(463000, 0)

Kp == <<0, 2, 0, 2, 0, 2, 1, 4, 2, 4, 1>>

Kq == <<1, 0, 2, 1, 3, 2, 0, 0, 3, 1, 1>>

Kpq == <<FDec(323565389, -5), FDec(-3258297, -5), FDec(-24750, -5),
         FDec(-84978, -5), FDec(-6550, -5), FDec(-1709, -5),
         FDec(-738, -5), FDec(530, -5), FDec(-39, -5), FDec(33, -5),
         FDec(-12, -5)>>

Lp == <<1, 1, 1, 3, 1, 3, 0, 3, 1, 0, 2, 5>>

Lq == <<0, 1, 2, 0, 3, 1, 1, 2, 4, 2, 0, 0>>

Lpq == <<FDec(526052916, -5), FDec(10594684, -5), FDec(245656, -5),
         FDec(-81885, -5), FDec(5594, -5), FDec(-5607, -5),
         FDec(1199, -5), FDec(-256, -5), FDec(128, -5), FDec(22, -5),
         FDec(-22, -5), FDec(26, -5)>>

\* 52.15517440 and 5.38720621
phi0 == FDec(521551744, -7)

lambda0 == FDec(538720621, -8)

\* a slip: the reference point is not subtracted
Normalize_NoOffset(v, v0) == FMul(v, FDec(1, -5))

\* a slip: the sign of the offset is reversed
Normalize_Reversed(v, v0) == FMul(FSub(v0, v), FDec(1, -5))

\* (v - v0) * 1e-5
Normalize(v, v0) == FMul(FSub(v, v0), FDec(1, -5))

\* c * (dx ** p) * (dy ** q), left to right; OverflowError when a power raises
Product(c, px, py) ==
    IF px = OverflowError \/ py = OverflowError THEN OverflowError
    ELSE FMul(FMul(c, px), py)

Term(c, dx, p, dy, q) == Product(c, FPow(dx, p), FPow(dy, q))

\* acc += t, unless computing t raised
Add(acc, t) == IF t = OverflowError THEN OverflowError ELSE FAdd(acc, t)

\* one pass of a loop body: acc += C[k] * (dx ** P[k]) * (dy ** Q[k])
Accumulate(acc, C, P, Q, dx, dy, k) ==
    Add(acc, Term(C[k], dx, P[k], dy, Q[k]))

\* the loop from pass k on, left when a pass raises
RECURSIVE Series(_, _, _, _, _, _, _)
Series(acc, C, P, Q, dx, dy, k) ==
    IF k > Len(C) \/ acc = OverflowError THEN acc
    ELSE Series(Accumulate(acc, C, P, Q, dx, dy, k), C, P, Q, dx, dy, k + 1)

\* phi / 3600, lambda_deg / 3600
ToDegrees(acc) == FDivInt(acc, 3600)

Raised == [st |-> "raised", phi |-> OverflowError, lambda_deg |-> OverflowError]

Returned(phi, lambda_deg) ==
    [st |-> "returned", phi |-> phi, lambda_deg |-> lambda_deg]

\* a slip: only the series sum is divided by 3600, not the whole accumulator
Return_SumOnly(phi, lam) ==
    IF phi = OverflowError \/ lam = OverflowError THEN Raised
    ELSE Returned(FAdd(phi0, ToDegrees(FSub(phi, phi0))),
                  FAdd(lambda0, ToDegrees(FSub(lam, lambda0))))

\* return phi, lambda_deg, after both divisions by 3600
Return(phi, lam) ==
    IF phi = OverflowError \/ lam = OverflowError THEN Raised
    ELSE Returned(ToDegrees(phi), ToDegrees(lam))

\* the two loops, on the normalized dx and dy
Convert(dx, dy) ==
    Return(Series(phi0, Kpq, Kp, Kq, dx, dy, 1),
           Series(lambda0, Lpq, Lp, Lq, dx, dy, 1))

rd_to_wgs84(x, y) == Convert(Normalize(x, x0), Normalize(y, y0))

(***************************************************************************)
(* Sequential calls of rd_to_wgs84 on inputs drawn from a grid over the    *)
(* Netherlands' RD extent, the reference point, the control point, values  *)
(* near the end of the float range, and the non-finite floats.             *)
(***************************************************************************)
NX == 10

NY == 9

Num(n) == FDec(n, 0)

GridX == {Num((280000 * i) \div NX) : i \in 0..NX}

GridY == {Num(300000 + (325000 * j) \div NY) : j \in 0..NY}

\* the floats nearest to 1e65, 1e70, -1e70 and to 1e75, 1e83: a float of
\* that size cannot tell v0 + 10^n from 10^n
HugeX == {FAdd(x0, FDec(1, 65)), FAdd(x0, FDec(1, 70)), FAdd(x0, FDec(-1, 70))}

HugeY == {FAdd(y0, FDec(1, 75)), FAdd(y0, FDec(1, 83))}

ControlX == Num(122700)

ControlY == Num(487525)

InputX == GridX \cup {x0, ControlX, Inf(FALSE), NaN} \cup HugeX

InputY == GridY \cup {y0, ControlY, Inf(TRUE)} \cup HugeY

NoCall == [st |-> "none", phi |-> NaN, lambda_deg |-> NaN]

\* the step of the monotonic-locality test, in metres
DeltaX == Num(100)

ConcIdle == thr = <<>>

LoopIdle ==
    /\ objs = <<>>
    /\ idx = 0
    /\ markers = <<>>
    /\ errors = <<>>
    /\ escaped = FALSE

UiIdle == ss = <<>> /\ widgets = <<>> /\ view = <<>> /\ profiles = <<>>

conv == <<arg, out, east>>

conc == <<thr>>

loop == <<objs, idx, markers, errors, escaped>>

ui == <<ss, widgets, view, profiles>>

\* the call rd_to_wgs84(x, y) of the arguments drawn
Call ==
    /\ out.st = "none"
    /\ out' = rd_to_wgs84(arg[1], arg[2])
    /\ UNCHANGED <<arg, east, conc, loop, ui>>

\* (x, y) lies in the Netherlands' RD extent
InExtent(x, y) ==
    /\ FLeq(Num(0), x) /\ FLeq(x, Num(280000))
    /\ FLeq(Num(300000), y) /\ FLeq(y, Num(625000))

\* the second call of the locality test, made for a point of the extent
\* whose neighbour DeltaX to the east is in the extent too:
\* rd_to_wgs84(x + 100, y)
CallEast ==
    /\ out.st # "none"
    /\ east.st = "none"
    /\ InExtent(arg[1], arg[2])
    /\ InExtent(FAdd(arg[1], DeltaX), arg[2])
    /\ east' = rd_to_wgs84(FAdd(arg[1], DeltaX), arg[2])
    /\ UNCHANGED <<arg, out, conc, loop, ui>>

ConvInit ==
    /\ arg \in InputX \X InputY
    /\ out = NoCall
    /\ east = NoCall
    /\ ConcIdle /\ LoopIdle /\ UiIdle

ConvNext == Call \/ CallEast

SpecConv == ConvInit /\ [][ConvNext]_vars

(***************************************************************************)
(* Concurrent calls of rd_to_wgs84: every thread runs the function         *)
(* statement by statement on a frame of its own, and the scheduler may     *)
(* switch threads between any two statements.  A thread that has left a    *)
(* call (returned or raised) may call again.                               *)
(***************************************************************************)
NThreads == 2

Threads == 1..NThreads

\* the control point, and a point whose dx ** 2 is beyond the float range
ConcInput == {<<ControlX, ControlY>>, <<FAdd(x0, FDec(1, 160)), y0>>}

\* a frame before its locals are bound
NoFrame ==
    [pc |-> "idle", x |-> Zero, y |-> Zero, dx |-> Zero, dy |-> Zero,
     phi |-> Zero, lambda_deg |-> Zero, k |-> 0, ret |-> NoCall]

\* the accumulators a thread's loop bodies read: the locals of its own frame
PhiOf(T, t) == T[t].phi

\* a slip: lambda_deg kept in a module-level variable, here thread 1's slot
LambdaOf_Global(T, t) == T[1].lambda_deg

LambdaOf(T, t) == T[t].lambda_deg

\* def rd_to_wgs84(x, y): the frame with its arguments
Begin(t, x, y) ==
    /\ thr[t].pc \in {"idle", "returned", "raised"}
    /\ thr' = [thr EXCEPT ![t] = [NoFrame EXCEPT !.pc = "normalize",
                                                 !.x = x, !.y = y]]
    /\ UNCHANGED <<conv, loop, ui>>

\* dx = ..., dy = ..., phi = phi0
NormalizeStep(t) ==
    /\ thr[t].pc = "normalize"
    /\ thr' = [thr EXCEPT ![t].dx = Normalize(thr[t].x, x0),
                          ![t].dy = Normalize(thr[t].y, y0),
                          ![t].phi = phi0,
                          ![t].k = 1,
                          ![t].pc = "lat"]
    /\ UNCHANGED <<conv, loop, ui>>

\* the frame after a loop body that raised
RaisedFrame(f) == [f EXCEPT !.pc = "raised", !.ret = Raised]

\* phi += Kpq[k] * (dx ** Kp[k]) * (dy ** Kq[k])
LatFrame(f, acc) ==
    IF acc = OverflowError THEN RaisedFrame(f)
    ELSE [f EXCEPT !.phi = acc, !.k = f.k + 1]

LatPass(t) ==
    /\ thr[t].pc = "lat"
    /\ thr[t].k <= Len(Kpq)
    /\ thr' = [thr EXCEPT ![t] =
                 LatFrame(thr[t], Accumulate(PhiOf(thr, t), Kpq, Kp, Kq,
                                             thr[t].dx, thr[t].dy, thr[t].k))]
    /\ UNCHANGED <<conv, loop, ui>>

\* phi = phi / 3600; lambda_deg = lambda0
LatDivide(t) ==
    /\ thr[t].pc = "lat"
    /\ thr[t].k > Len(Kpq)
    /\ thr' = [thr EXCEPT ![t].phi = ToDegrees(PhiOf(thr, t)),
                          ![t].lambda_deg = lambda0,
                          ![t].k = 1,
                          ![t].pc = "lon"]
    /\ UNCHANGED <<conv, loop, ui>>

\* lambda_deg += Lpq[l] * (dx ** Lp[l]) * (dy ** Lq[l])
LonFrame(f, acc) ==
    IF acc = OverflowError THEN RaisedFrame(f)
    ELSE [f EXCEPT !.lambda_deg = acc, !.k = f.k + 1]

LonPass(t) ==
    /\ thr[t].pc = "lon"
    /\ thr[t].k <= Len(Lpq)
    /\ thr' = [thr EXCEPT ![t] =
                 LonFrame(thr[t], Accumulate(LambdaOf(thr, t), Lpq, Lp, Lq,
                                             thr[t].dx, thr[t].dy, thr[t].k))]
    /\ UNCHANGED <<conv, loop, ui>>

\* lambda_deg = lambda_deg / 3600; return phi, lambda_deg
ReturnFrame(f, lam) ==
    [f EXCEPT !.lambda_deg = lam, !.pc = "returned", !.ret = Returned(f.phi, lam)]

LonDivide(t) ==
    /\ thr[t].pc = "lon"
    /\ thr[t].k > Len(Lpq)
    /\ thr' = [thr EXCEPT ![t] = ReturnFrame(thr[t], ToDegrees(LambdaOf(thr, t)))]
    /\ UNCHANGED <<conv, loop, ui>>

ConcInit ==
    /\ thr = [t \in Threads |-> NoFrame]
    /\ arg = <<>> /\ out = NoCall /\ east = NoCall
    /\ LoopIdle /\ UiIdle

ConcNext ==
    \E t \in Threads :
        \/ \E p \in ConcInput : Begin(t, p[1], p[2])
        \/ NormalizeStep(t)
        \/ LatPass(t)
        \/ LatDivide(t)
        \/ LonPass(t)
        \/ LonDivide(t)

SpecConc == ConcInit /\ [][ConcNext]_vars

(***************************************************************************)
(* The loop that plots the objects of the selected room.  A cell of the    *)
(* file is missing (NaN or None), a string that is no number, or a number. *)
(***************************************************************************)
MaxObjs == 2

Missing == [kind |-> "nan", v |-> NaN]

Text == [kind |-> "str", v |-> NaN]

Number(v) == [kind |-> "num", v |-> v]

\* the x_coordinate and y_coordinate cells drawn: absent, not numeric, a
\* point of the Netherlands, a value for which rd_to_wgs84 raises
CellX == {Missing, Text, Number(ControlX), Number(FAdd(x0, FDec(1, 70)))}

CellY == {Missing, Text, Number(ControlY)}

Row == [x_coordinate : CellX, y_coordinate : CellY]

Files == UNION {[1..n -> Row] : n \in 1..MaxObjs}

\* pd.notna(c)
notna(c) == c.kind # "nan"

NoException == "none"

\* the try block from its two float() results on: ValueError when a cell
\* is no number, else what rd_to_wgs84 does
Converted(cx, cy) ==
    IF cx.kind # "num" \/ cy.kind # "num"
    THEN [exc |-> "ValueError", at |-> NoCall]
    ELSE [exc |-> NoException, at |-> rd_to_wgs84(cx.v, cy.v)]

\* obj_lat, obj_lon = rd_to_wgs84(float(rd_x), float(rd_y))
TryConvert(obj) == Converted(obj.x_coordinate, obj.y_coordinate)

\* the exception the try block ends with, NoException when it completes
Thrown(r) ==
    IF r.exc # NoException THEN r.exc
    ELSE IF r.at.st = "raised" THEN "OverflowError"
    ELSE NoException

\* a slip: except ValueError
Caught_ValueErrorOnly(exc) == exc = "ValueError"

\* except Exception
Caught(exc) == exc \in {"ValueError", "OverflowError"}

\* folium.CircleMarker(location=[obj_lat, obj_lon], ...).add_to(m)
Marker(i, r) == [obj |-> i, location |-> <<r.at.phi, r.at.lambda_deg>>]

\* the body of the loop for row i, r being what its try block did
AfterTry(i, r) ==
    /\ markers' = IF Thrown(r) = NoException THEN Append(markers, Marker(i, r))
                  ELSE markers
    /\ errors' = IF Thrown(r) # NoException /\ Caught(Thrown(r))
                 THEN Append(errors, "Invalid coordinates")
                 ELSE errors
    /\ escaped' = (Thrown(r) # NoException /\ ~Caught(Thrown(r)))

\* one pass of the loop over a row with both coordinates present
PlotObject ==
    /\ ~escaped
    /\ idx < Len(objs)
    /\ notna(objs[idx + 1].x_coordinate) /\ notna(objs[idx + 1].y_coordinate)
    /\ AfterTry(idx + 1, TryConvert(objs[idx + 1]))
    /\ idx' = idx + 1
    /\ UNCHANGED <<objs, conv, conc, ui>>

\* one pass of the loop over a row with a coordinate missing
SkipObject ==
    /\ ~escaped
    /\ idx < Len(objs)
    /\ ~(notna(objs[idx + 1].x_coordinate) /\ notna(objs[idx + 1].y_coordinate))
    /\ idx' = idx + 1
    /\ UNCHANGED <<objs, markers, errors, escaped, conv, conc, ui>>

LoopInit ==
    /\ objs \in Files
    /\ idx = 0
    /\ markers = <<>>
    /\ errors = <<>>
    /\ escaped = FALSE
    /\ arg = <<>> /\ out = NoCall /\ east = NoCall
    /\ ConcIdle /\ UiIdle

LoopNext == PlotObject \/ SkipObject

SpecLoop == LoopInit /\ [][LoopNext]_vars

(***************************************************************************)
(* The page (lines 119-310).  An action is one event of the browser and    *)
(* the script runs it causes: the run the event starts and, when that run  *)
(* ends in st.rerun(), the run that follows.  Streamlit keeps a widget's   *)
(* value under the widget's key and drops it at the end of a run that did  *)
(* not render the widget; a run that ends in an exception drops nothing.   *)
(* The object loop of lines 188-229 changes no session state and is left   *)
(* to the specification above.                                             *)
(***************************************************************************)
None == "None"

\* VoltageRooms.csv: two rooms on one parallel and a third to the north
voltage_rooms ==
    << [id |-> "R1", latitude |-> 52, longitude |-> 4],
       [id |-> "R2", latitude |-> 52, longitude |-> 6],
       [id |-> "R3", latitude |-> 54, longitude |-> 5] >>

RoomIds == {voltage_rooms[i].id : i \in DOMAIN voltage_rooms}

ProfileRow(r, d, p) == [voltage_room_id |-> r, date |-> d, power_kw |-> p]

\* the profiles.csv files drawn: rooms with overlapping and with disjoint
\* dates, several rows a day, rows out of date order, equal daily maxima,
\* and rooms without rows
ProfileFiles ==
    { << ProfileRow("R1", 1, 5), ProfileRow("R1", 1, 7), ProfileRow("R1", 2, 6),
         ProfileRow("R2", 2, 3), ProfileRow("R2", 3, 9), ProfileRow("R2", 3, 1) >>,
      << ProfileRow("R3", 3, 8), ProfileRow("R1", 2, 4), ProfileRow("R3", 2, 8),
         ProfileRow("R1", 1, 4), ProfileRow("R2", 1, 2), ProfileRow("R3", 1, 1) >>,
      << ProfileRow("R2", 3, 1), ProfileRow("R3", 4, 2), ProfileRow("R2", 1, 2),
         ProfileRow("R2", 2, 2), ProfileRow("R3", 5, 9) >> }

\* the places of the map a click can report: the three room markers, the
\* point midway between R1 and R2, and an object marker far from all rooms
last_object_clicked(lat, lng) == [lat |-> lat, lng |-> lng]

ClickPoints ==
    {last_object_clicked(52, 4), last_object_clicked(52, 6), last_object_clicked(54, 5), last_object_clicked(52, 5), last_object_clicked(0, 0)}

\* key in st.session_state
Has(s, k) == k \in DOMAIN s

\* st.session_state.get(k)
Get(s, k) == IF Has(s, k) THEN s[k] ELSE None

\* st.session_state.k = v, and the same for an entry of the widget store
Put(s, k, v) == [j \in DOMAIN s \cup {k} |-> IF j = k THEN v ELSE s[j]]

\* if k not in st.session_state: st.session_state.k = v
Default(s, k, v) == IF Has(s, k) THEN s ELSE Put(s, k, v)

NoKeys == [k \in {} |-> None]

NoWidgets == [map |-> NoKeys, date |-> NoKeys]

\* lines 135-138
InitSession(s) ==
    Default(Default(s, "selected_room_id", None), "show_objects", FALSE)

\* lines 143-144: the Reset button was pressed
ResetSession_KeepsObjects(s) == Put(s, "selected_room_id", None)

ResetSession(s) ==
    Put(Put(s, "selected_room_id", None), "show_objects", FALSE)

\* line 232: the key of the map component
MapKey(s) == <<s.selected_room_id, s.show_objects>>

\* lines 240-241, without the square root, which keeps the order
distance(row, click) ==
    (row.latitude - click.lat) ^ 2 + (row.longitude - click.lng) ^ 2

\* line 242: idxmin, the first row at the least distance
idxmin(click) ==
    CHOOSE i \in DOMAIN voltage_rooms :
        /\ \A j \in DOMAIN voltage_rooms :
              distance(voltage_rooms[i], click) <= distance(voltage_rooms[j], click)
        /\ \A j \in 1..(i - 1) :
              distance(voltage_rooms[i], click) < distance(voltage_rooms[j], click)

closest_room(click) == voltage_rooms[idxmin(click)]

\* lines 246-247
SelectRoom(s, id) == Put(Put(s, "selected_room_id", id), "show_objects", TRUE)

\* the widget store at the end of a run that rendered the map under key
\* maps and the date selectors of the rooms dates
Rendered(w, maps, dates) ==
    [map  |-> [k \in DOMAIN w.map \cap maps |-> w.map[k]],
     date |-> [k \in DOMAIN w.date \cap dates |-> w.date[k]]]

\* line 278
room_profiles(id) == SelectSeq(profiles, LAMBDA row : row.voltage_room_id = id)

DatesOf(rows) == {rows[i].date : i \in DOMAIN rows}

\* line 286: groupby('date')['power_kw'].max()
daily_max(rows, d) ==
    CHOOSE p \in {rows[i].power_kw : i \in {j \in DOMAIN rows : rows[j].date = d}} :
        \A i \in DOMAIN rows : rows[i].date = d => rows[i].power_kw <= p

\* line 289: idxmax, the first of the days, in date order, with the
\* greatest daily maximum
peak_day(rows) ==
    CHOOSE d \in DatesOf(rows) :
        /\ \A e \in DatesOf(rows) : daily_max(rows, e) <= daily_max(rows, d)
        /\ \A e \in DatesOf(rows) :
              daily_max(rows, e) = daily_max(rows, d) => d <= e

\* line 297: sorted(room_profiles['date'].unique())
unique_dates(rows) ==
    [i \in 1..Cardinality(DatesOf(rows)) |->
        CHOOSE d \in DatesOf(rows) :
            Cardinality({e \in DatesOf(rows) : e < d}) = i - 1]

\* line 292
Stale_FirstUseOnly(s, id) == ~Has(s, "selected_date")

Stale(s, id) == ~Has(s, "selected_date") \/ Get(s, "last_room_id") # id

\* lines 292-294
Fresh(s, rows, id) ==
    IF Stale(s, id)
    THEN Put(Put(s, "selected_date", peak_day(rows)), "last_room_id", id)
    ELSE s

\* line 306: list.index raises ValueError for a value not in the list
IndexRaises(options, v) == \A i \in DOMAIN options : options[i] # v

index(options, v) == CHOOSE i \in DOMAIN options :
    options[i] = v /\ \A j \in 1..(i - 1) : options[j] # v

\* lines 303-309: the selectbox gives the value kept under its key and, when
\* there is none, the option at index
selectbox(options, i, w, key) ==
    IF key \in DOMAIN w.date THEN w.date[key] ELSE options[i]

\* the end of a script run
Done(s, w, sel, was) == [ss |-> s, widgets |-> w, selector |-> sel, was |-> was]

\* lines 303-310, the value of the selectbox known
Selected(s, w, id, value, was) ==
    Done(Put(s, "selected_date", value),
         Rendered([w EXCEPT !.date = Put(@, id, value)], {MapKey(s)}, {id}),
         "rendered", was)

\* lines 296-310, s the session state after lines 292-294
DateSelector(s, w, rows, id, was) ==
    IF IndexRaises(unique_dates(rows), s.selected_date)
    THEN Done(s, w, "ValueError", was)
    ELSE Selected(s, w, id,
                  selectbox(unique_dates(rows),
                            index(unique_dates(rows), s.selected_date), w, id),
                  was)

\* lines 250-310: the profile column
Column2(s, w) ==
    IF s.selected_room_id = None
    THEN Done(s, Rendered(w, {MapKey(s)}, {}), "none", None)
    ELSE IF Len(room_profiles(s.selected_room_id)) > 0
    THEN DateSelector(Fresh(s, room_profiles(s.selected_room_id), s.selected_room_id),
                      w, room_profiles(s.selected_room_id), s.selected_room_id,
                      Get(s, "last_room_id"))
    ELSE Done(s, Rendered(w, {MapKey(s)}, {}), "warning", None)

RECURSIVE Script(_, _, _)

\* lines 232-248: the map and the click it reports
Column1(s, w) ==
    IF /\ MapKey(s) \in DOMAIN w.map
       /\ s.selected_room_id # closest_room(w.map[MapKey(s)]).id
    THEN Script(SelectRoom(s, closest_room(w.map[MapKey(s)]).id),
                Rendered(w, {MapKey(s)}, {}), FALSE)
    ELSE Column2(s, w)

\* lines 141-145: the Reset button, shown while a room is selected
ResetButton(s, w, pressed) ==
    IF s.selected_room_id # None /\ pressed
    THEN Script(ResetSession(s), Rendered(w, {}, {}), FALSE)
    ELSE Column1(s, w)

\* one run of the script, and the runs its st.rerun() calls start
Script(s, w, pressed) == ResetButton(InitSession(s), w, pressed)

\* an event's runs are over
Finish(r, event) ==
    /\ ss' = r.ss
    /\ widgets' = r.widgets
    /\ view' = [event |-> event, selector |-> r.selector, was |-> r.was]
    /\ UNCHANGED <<profiles, conv, conc, loop>>

\* the first run of a session
Load ==
    /\ DOMAIN ss = {}
    /\ Finish(Script(ss, widgets, FALSE), "load")

\* a run without an event of the page (the browser's rerun)
Rerun ==
    /\ DOMAIN ss # {}
    /\ Finish(Script(ss, widgets, FALSE), "rerun")

\* the Reset button is pressed
Reset ==
    /\ DOMAIN ss # {}
    /\ ss.selected_room_id # None
    /\ Finish(Script(ss, widgets, TRUE), "reset")

\* the map shown is clicked at click
Click(click) ==
    /\ DOMAIN ss # {}
    /\ Finish(Script(ss, [widgets EXCEPT !.map = Put(@, MapKey(ss), click)], FALSE),
              "click")

\* the day d is chosen in the date selector shown
ChooseDate(d) ==
    /\ view.selector = "rendered"
    /\ d \in DatesOf(room_profiles(ss.selected_room_id))
    /\ Finish(Script(ss, [widgets EXCEPT !.date = Put(@, ss.selected_room_id, d)],
                     FALSE),
              "date")

UiInit ==
    /\ profiles \in ProfileFiles
    /\ ss = NoKeys
    /\ widgets = NoWidgets
    /\ view = [event |-> "none", selector |-> "none", was |-> None]
    /\ arg = <<>> /\ out = NoCall /\ east = NoCall
    /\ ConcIdle /\ LoopIdle

ClickSome == \E click \in ClickPoints : Click(click)

ChooseSome == \E d \in DatesOf(profiles) : ChooseDate(d)

UiNext == Load \/ Rerun \/ Reset \/ ClickSome \/ ChooseSome

SpecUI == UiInit /\ [][UiNext]_vars

(***************************************************************************)
(* The converter's claims.                                                 *)
(***************************************************************************)
\* the tables and reference values of the specification's section 4.1
SpecKp == <<0, 2, 0, 2, 0, 2, 1, 4, 2, 4, 1>>

SpecKq == <<1, 0, 2, 1, 3, 2, 0, 0, 3, 1, 1>>

SpecKpq == <<FDec(323565389, -5), FDec(-3258297, -5), FDec(-24750, -5),
             FDec(-84978, -5), FDec(-6550, -5), FDec(-1709, -5),
             FDec(-738, -5), FDec(530, -5), FDec(-39, -5), FDec(33, -5),
             FDec(-12, -5)>>

SpecLp == <<1, 1, 1, 3, 1, 3, 0, 3, 1, 0, 2, 5>>

SpecLq == <<0, 1, 2, 0, 3, 1, 1, 2, 4, 2, 0, 0>>

SpecLpq == <<FDec(526052916, -5), FDec(10594684, -5), FDec(245656, -5),
             FDec(-81885, -5), FDec(5594, -5), FDec(-5607, -5),
             FDec(1199, -5), FDec(-256, -5), FDec(128, -5), FDec(22, -5),
             FDec(-22, -5), FDec(26, -5)>>

\* 52.15517440 and 5.38720621
SpecPhi0 == FDec(521551744, -7)

SpecLambda0 == FDec(538720621, -8)

SpecDx(x) == FMul(FSub(x, Num(155000)), FDec(1, -5))

SpecDy(y) == FMul(FSub(y, Num(463000)), FDec(1, -5))

\* ref + C[1]*dx^P[1]*dy^Q[1] + ... + C[k]*dx^P[k]*dy^Q[k]
RECURSIVE SpecSum(_, _, _, _, _, _, _)
SpecSum(ref, C, P, Q, dx, dy, k) ==
    IF k = 0 THEN ref
    ELSE FAdd(SpecSum(ref, C, P, Q, dx, dy, k - 1),
              FMul(FMul(C[k], FPow(dx, P[k])), FPow(dy, Q[k])))

SpecLat(x, y) ==
    FDivInt(SpecSum(SpecPhi0, SpecKpq, SpecKp, SpecKq, SpecDx(x), SpecDy(y), 11),
            3600)

SpecLon(x, y) ==
    FDivInt(SpecSum(SpecLambda0, SpecLpq, SpecLp, SpecLq, SpecDx(x), SpecDy(y), 12),
            3600)

Within(v, c, tol) == FLeq(FSub(c, tol), v) /\ FLeq(v, FAdd(c, tol))

\* C3: for the control point RD (122700, 487525) the latitude is within
\* 0.001 degrees of 52.3731 and the longitude within 0.001 degrees of 4.8922.
C3_ControlPoint ==
    (out.st # "none" /\ arg = <<Num(122700), Num(487525)>>) =>
        /\ out.st = "returned"
        /\ Within(out.phi, FDec(523731, -4), FDec(1, -3))
        /\ Within(out.lambda_deg, FDec(48922, -4), FDec(1, -3))

\* C4: for every input in the RD extent the latitude is in [50.7, 53.6] and
\* the longitude in [3.3, 7.3].
C4_BoundingBox ==
    (out.st # "none" /\ InExtent(arg[1], arg[2])) =>
        /\ out.st = "returned"
        /\ FLeq(FDec(507, -1), out.phi) /\ FLeq(out.phi, FDec(536, -1))
        /\ FLeq(FDec(33, -1), out.lambda_deg)
        /\ FLeq(out.lambda_deg, FDec(73, -1))

\* C5: for (x, y) and (x + 100, y) both in the RD extent, the longitude of
\* the second call is strictly greater than that of the first.
C5_LongitudeIncreasesWithX ==
    (/\ east.st # "none"
     /\ InExtent(arg[1], arg[2])
     /\ InExtent(FAdd(arg[1], Num(100)), arg[2])) =>
        /\ out.st = "returned"
        /\ east.st = "returned"
        /\ FLess(out.lambda_deg, east.lambda_deg)

C5_Witness ==
    /\ east.st = "returned"
    /\ arg = <<Num(0), Num(300000)>>
    /\ FLess(out.lambda_deg, east.lambda_deg)

WithinPow10(v, v0, n) ==
    \/ v.k # "fin"
    \/ FLeq(FSub(v, v0), FDec(1, n)) /\ FLeq(FDec(-1, n), FSub(v, v0))

C7_CallsIndependent ==
    /\ \A t \in Threads :
          thr[t].pc \in {"returned", "raised"} =>
              thr[t].ret = rd_to_wgs84(thr[t].x, thr[t].y)
    /\ \A t, u \in Threads :
          (/\ thr[t].pc \in {"returned", "raised"}
           /\ thr[u].pc \in {"returned", "raised"}
           /\ thr[t].x = thr[u].x /\ thr[t].y = thr[u].y) =>
              thr[t].ret = thr[u].ret

C7_Witness ==
    /\ thr[1].pc = "lon" /\ thr[1].k = 6
    /\ thr[2].pc = "returned"
    /\ thr[2].x = thr[1].x /\ thr[2].y = thr[1].y

\* the rows whose coordinates are both present
Present == {i \in 1..Len(objs) : /\ objs[i].x_coordinate.kind # "nan"
                                 /\ objs[i].y_coordinate.kind # "nan"}

\* the rows whose coordinates are present and can be converted
Convertible ==
    {i \in Present :
        /\ objs[i].x_coordinate.kind = "num"
        /\ objs[i].y_coordinate.kind = "num"
        /\ rd_to_wgs84(objs[i].x_coordinate.v, objs[i].y_coordinate.v).st = "returned"}

MarkersOf(i) == {j \in 1..Len(markers) : markers[j].obj = i}

LoopDone == idx = Len(objs)

ShowOnlyIfSelected ==
    Has(ss, "show_objects") =>
        (ss.show_objects => Has(ss, "selected_room_id") /\ ss.selected_room_id # None)

Deselected(s) == s.selected_room_id = None /\ s.show_objects = FALSE

\* what the first run, a press of Reset and a click do to the two variables
SelectionStep ==
    /\ Load => Deselected(ss')
    /\ Reset => Deselected(ss')
    /\ \A click \in ClickPoints :
          Click(click) =>
              IF closest_room(click).id = ss.selected_room_id
              THEN /\ ss'.selected_room_id = ss.selected_room_id
                   /\ ss'.show_objects = ss.show_objects
              ELSE /\ ss'.selected_room_id = closest_room(click).id
                   /\ ss'.show_objects = TRUE

\* C9: over every sequence of runs driven by clicks and presses of Reset,
\* show_objects is True only if selected_room_id is not None; the first run
\* sets (None, False), a click that changes the selection sets (closest
\* room id, True), Reset sets (None, False), and a click whose closest room
\* is already selected changes neither variable.
C9_SessionState == []ShowOnlyIfSelected /\ [][SelectionStep]_vars

\* Reset has been pressed on a room whose date selector had been rendered
C9_Witness ==
    /\ view.event = "reset"
    /\ Deselected(ss)
    /\ Has(ss, "last_room_id")

\* the days room id has rows for
SpecDates(id) ==
    {profiles[i].date : i \in {j \in DOMAIN profiles : profiles[j].voltage_room_id = id}}

\* power_kw of room id reaches p on day d
SpecReaches(id, d, p) ==
    \E i \in DOMAIN profiles :
        /\ profiles[i].voltage_room_id = id
        /\ profiles[i].date = d
        /\ profiles[i].power_kw >= p

\* the days of room id on which its power_kw is the highest of all its rows
SpecPeakDays(id) ==
    {d \in SpecDates(id) :
        \A i \in DOMAIN profiles :
            profiles[i].voltage_room_id = id => SpecReaches(id, d, profiles[i].power_kw)}

\* C10: whenever the date selector is rendered for the selected room,
\* unique_dates.index(selected_date) does not fail and selected_date is one
\* of that room's own dates; and when the room differed from last_room_id
\* as the render began, selected_date is that room's peak day.
C10_DateSelector ==
    /\ view.selector # "ValueError"
    /\ view.selector = "rendered" =>
          /\ ss.selected_date \in SpecDates(ss.selected_room_id)
          /\ ss.last_room_id = ss.selected_room_id
          /\ view.was # ss.selected_room_id =>
                ss.selected_date \in SpecPeakDays(ss.selected_room_id)

\* a click moved the selection from R1, whose days are 1 and 2, to R2, whose
\* days are 2 and 3, and the selector shows R2's peak day
C10_Witness ==
    /\ view.event = "click"
    /\ view.selector = "rendered"
    /\ view.was = "R1"
    /\ ss.selected_room_id = "R2"
    /\ SpecDates("R1") = {1, 2}
    /\ SpecDates("R2") = {2, 3}
    /\ ss.selected_date = 3

====
